---- MODULE Spec2Model ----
(***************************************************************************)
(* State-machine model of scripted::ui::Presenter (src/presenter.hpp) and  *)
(* of the IView contract it drives (src/frontend_contract.hpp).            *)
(*                                                                         *)
(* Threads: the interactive control flow ("ui") runs every handler wired   *)
(* in Presenter::wire and every callback handed to IView::postToUi; each   *)
(* accepted resolve/export runs the body of one detached std::thread       *)
(* ("worker").  The worker captures `this`, so it reads the live Workspace *)
(* `ws` while the control flow may be writing it.                          *)
(*                                                                         *)
(* scripted_core.hpp (codec, context store, resolver, exporter) is not     *)
(* part of the sources; those operators are modelled from the written      *)
(* specification (spec.md): Config, Codec, Bank model, Context store,      *)
(* Resolver and exporter below.                                            *)
(***************************************************************************)
EXTENDS Integers, Sequences, FiniteSets, TLC

VARIABLES
    ws,        \* Presenter::ws     : bank id -> Bank
    current,   \* Presenter::current: bank id, or None
    dirty,     \* Presenter::dirty
    busy,      \* Presenter::busy   (std::atomic<bool>)
    filter,    \* Presenter::filter
    view,      \* what the IView was last told (status, rows, current, banks, busy)
    calls,     \* which thread has called which IView method so far
    workers,   \* the detached std::threads that have not finished yet
    uiQueue,   \* callbacks handed to IView::postToUi and not yet run
    disk,      \* bank files under the root directory: bank id -> Bank
    outFiles,  \* files under <root>/out: path -> content
    ops,       \* requests the front end has fired so far
    lastReq    \* the latest request: for an insert or delete on a selected bank
               \* its (reg, addr) and the register's addresses before it, for a
               \* resolve or export the callbacks that were pending when it came

vars == <<ws, current, dirty, busy, filter, view, calls, workers, uiQueue, disk, outFiles, ops,
          lastReq>>

---------------------------------------------------------------------------
(* Bounds of the exploration *)

MaxBank == 2      \* bank ids 1..MaxBank
MaxReg  == 1      \* register ids 1..MaxReg
MaxAddr == 2      \* address ids 1..MaxAddr
MaxOps  == 3      \* requests fired by the front end in one behaviour

BankIds == 1..MaxBank
RegIds  == 1..MaxReg
AddrIds == 1..MaxAddr

(* std::optional<long long>{} *)
None == 0 - 1

---------------------------------------------------------------------------
(* Config (loaded once by loadConfig; immutable afterwards) *)

Prefix    == "x"
Base      == 16
WidthBank == 2
WidthReg  == 2
WidthAddr == 2

---------------------------------------------------------------------------
(* Generic finite maps (std::map) *)

EmptyMap == [k \in {} |-> 0]

Put(f, k, v) == [x \in (DOMAIN f) \cup {k} |-> IF x = k THEN v ELSE f[x]]

Remove(f, k) == [x \in (DOMAIN f) \ {k} |-> f[x]]

(* the element of a one-element set *)
Only(S) == CHOOSE x \in S : TRUE

(* the keys of a std::map in iteration order: ascending *)
SortedSeq(S) ==
    [k \in 1..Cardinality(S) |-> CHOOSE x \in S : Cardinality({y \in S : y < x}) = k - 1]

---------------------------------------------------------------------------
(* Codec: strings are sequences of one-character strings *)

Alphabet == <<"0","1","2","3","4","5","6","7","8","9",
              "a","b","c","d","e","f","g","h","i","j","k","l","m",
              "n","o","p","q","r","s","t","u","v","w","x","y","z">>

DigitChar(d) == Alphabet[d + 1]

RECURSIVE Digits(_, _)
Digits(v, base) ==
    IF v < base THEN <<DigitChar(v)>>
    ELSE Digits(v \div base, base) \o <<DigitChar(v % base)>>

RECURSIVE PadLeft(_, _)
PadLeft(s, width) == IF Len(s) >= width THEN s ELSE PadLeft(<<"0">> \o s, width)

(* toBaseN(value, base, width): never truncates *)
toBaseN(v, base, width) == PadLeft(Digits(v, base), width)

(* ::tolower on one character *)
LowerChar(c) ==
    CASE c = "A" -> "a" [] c = "B" -> "b" [] c = "X" -> "x" [] OTHER -> c

ToLower(s) == [i \in 1..Len(s) |-> LowerChar(s[i])]

(* the value of each digit character *)
CharValue == [c \in {Alphabet[k] : k \in 1..Len(Alphabet)} |->
                CHOOSE d \in 0..(Len(Alphabet) - 1) : Alphabet[d + 1] = c]

DigitValue(c, base) ==
    IF c \in DOMAIN CharValue /\ CharValue[c] < base THEN CharValue[c] ELSE None

(* trim(s): without the surrounding blanks *)
trim(s) ==
    LET inked == {k \in 1..Len(s) : s[k] # " "}
    IN  IF inked = {} THEN <<>>
        ELSE SubSeq(s, CHOOSE k \in inked : \A j \in inked : k <= j,
                       CHOOSE k \in inked : \A j \in inked : k >= j)

(* the value of the first n digits of s *)
RECURSIVE ParseDigits(_, _, _)
ParseDigits(s, n, base) ==
    IF n = 0 THEN 0 ELSE ParseDigits(s, n - 1, base) * base + DigitValue(s[n], base)

(* parseIntBase(text, base, out): the parsed value, or None when it fails *)
parseIntBase(text, base) ==
    Only({IF t = <<>> \/ \E k \in 1..Len(t) : DigitValue(t[k], base) = None
          THEN None
          ELSE ParseDigits(t, Len(t), base) : t \in {trim(text)}})

---------------------------------------------------------------------------
(* Workspace / Bank model *)

(* Bank: title and regs (register id -> address id -> value) *)
Bank(title, regs) == [title |-> title, regs |-> regs]

DefaultTitle == "untitled"

EmptyBank == Bank(DefaultTitle, EmptyMap)

(* Values are opaque strings.  A value that embeds a cross-reference is    *)
(* written "@" bank reg addr, each id in its fixed-width rendering.        *)
MkRef(b, r, a) ==
    <<"@">> \o toBaseN(b, Base, WidthBank) \o toBaseN(r, Base, WidthReg)
            \o toBaseN(a, Base, WidthAddr)

IsRef(v) == v # <<>> /\ v[1] = "@"

RefTarget(v) ==
    <<parseIntBase(SubSeq(v, 2, 1 + WidthBank), Base),
      parseIntBase(SubSeq(v, 2 + WidthBank, 1 + WidthBank + WidthReg), Base),
      parseIntBase(SubSeq(v, 2 + WidthBank + WidthReg, Len(v)), Base)>>

PlainVal == <<"a">>

(* the values the front end hands to insert *)
Vals == {PlainVal, MkRef(MaxBank, 1, 1)}

(* the (reg, addr) keys of a bank *)
BankKeys(b) == UNION {{<<r, a>> : a \in DOMAIN b.regs[r]} : r \in DOMAIN b.regs}

KeyBefore(p, q) == p[1] < q[1] \/ (p[1] = q[1] /\ p[2] < q[2])

(* for (auto& [rid, addrs] : b.regs) for (auto& [aid, val] : addrs) rows.push_back(..): *)
(* ascending register id, then ascending address id                                      *)
BankRows(b) ==
    [k \in 1..Cardinality(BankKeys(b)) |->
        CHOOSE row \in {[reg |-> p[1], addr |-> p[2], val |-> b.regs[p[1]][p[2]]] :
                          p \in {q \in BankKeys(b) :
                                   Cardinality({o \in BankKeys(b) : KeyBefore(o, q)}) = k - 1}} :
            TRUE]

---------------------------------------------------------------------------
(* Context store *)

DotTxt == <<".", "t", "x", "t">>

EndsWith(s, suf) ==
    Len(s) >= Len(suf) /\ SubSeq(s, Len(s) - Len(suf) + 1, Len(s)) = suf

(* stem: the name without a trailing ".txt" *)
StemOf(name) ==
    IF Len(name) > 4 /\ EndsWith(name, DotTxt)
    THEN SubSeq(name, 1, Len(name) - 4) ELSE name

(* token: the stem without the leading prefix character *)
TokenOf(name) ==
    LET stem == StemOf(name)
    IN  IF stem # <<>> /\ stem[1] = Prefix THEN Tail(stem) ELSE stem

(* the bank id a name denotes, None when the token does not parse *)
IdOfName(name) == parseIntBase(TokenOf(name), Base)

(* contextFileName(cfg, id) *)
contextFileName(id) == <<Prefix>> \o toBaseN(id, Base, WidthBank) \o DotTxt

outResolvedName(id) == <<"out/">> \o toBaseN(id, Base, WidthBank) \o <<".resolved.txt">>

outJsonName(id) == <<"out/">> \o toBaseN(id, Base, WidthBank) \o <<".json">>

(* openCtx(cfg, ws, nameOrStem, status): [ok, ws, status] *)
openCtx(w, d, name) ==
    Only({IF id = None
          THEN [ok |-> FALSE, ws |-> w, status |-> <<"Bad context id: ">> \o name]
          ELSE IF id \in DOMAIN w
          THEN [ok |-> TRUE, ws |-> w, status |-> <<"Switched to ">> \o StemOf(name)]
          ELSE IF id \in DOMAIN d
          THEN [ok |-> TRUE, ws |-> Put(w, id, d[id]),
                status |-> <<"Loaded ">> \o StemOf(name)]
          ELSE [ok |-> TRUE, ws |-> Put(w, id, EmptyBank),
                status |-> <<"Created ">> \o StemOf(name)] : id \in {IdOfName(name)}})

(* preloadAll(cfg, ws): every bank file replaces the in-memory bank of its id *)
preloadAll(w, d) ==
    [id \in (DOMAIN w) \cup (DOMAIN d) |-> IF id \in DOMAIN d THEN d[id] ELSE w[id]]

(* std::to_string(ws.banks.size()) *)
CountStr(w) == Digits(Cardinality(DOMAIN w), 10)

---------------------------------------------------------------------------
(* Resolver and exporter *)

HasEntry(w, target) ==
    \E t \in {target} :
        /\ t[1] \in DOMAIN w
        /\ t[2] \in DOMAIN w[t[1]].regs
        /\ t[3] \in DOMAIN w[t[1]].regs[t[2]]

(* the text of one row: its value, or the value its reference points to *)
ResolvedVal(w, v) ==
    IF IsRef(v)
    THEN Only({w[t[1]].regs[t[2]][t[3]] : t \in {RefTarget(v)}})
    ELSE v

(* single pass over the rows; fails at the first unresolved reference *)
ResolveRows(w, rows) ==
    LET broken == {k \in 1..Len(rows) :
                     IsRef(rows[k].val) /\ ~HasEntry(w, RefTarget(rows[k].val))}
    IN  IF broken = {}
        THEN [ok |-> TRUE, text |-> [k \in 1..Len(rows) |-> ResolvedVal(w, rows[k].val)],
              ref |-> <<>>]
        ELSE [ok |-> FALSE, text |-> <<>>,
              ref |-> rows[CHOOSE k \in broken : \A j \in broken : k <= j].val]

(* resolveBankToText(cfg, ws, id), run on the rows of bank `b` against `w` *)
resolveBankToText(w, b) ==
    Only({ResolveRows(w, rows) : rows \in {BankRows(b)}})

(* exportBankToJSON(cfg, ws, id): registers and addresses in ascending order, *)
(* keys rendered by the codec                                                  *)
JsonRows(rows) ==
    [k \in 1..Len(rows) |->
        [reg  |-> toBaseN(rows[k].reg, Base, WidthReg),
         addr |-> toBaseN(rows[k].addr, Base, WidthAddr),
         val  |-> rows[k].val]]

exportBankToJSON(b) ==
    Only({[ok |-> TRUE, text |-> JsonRows(rows), ref |-> <<>>] : rows \in {BankRows(b)}})

---------------------------------------------------------------------------
(* Inputs of the front end *)

(* names handed to onSwitch: a stem per bank, a file name, a bare token,   *)
(* and a text that is no identifier in the configured base                 *)
StemName(b) == <<Prefix>> \o toBaseN(b, Base, WidthBank)

BadName == <<Prefix, "z", "z">>

Names ==
    {StemName(b) : b \in BankIds}
        \cup {StemName(1) \o DotTxt, toBaseN(MaxBank, Base, WidthBank), BadName}

(* texts handed to onFilter: none, a letter in upper case, an encoded address *)
Filters == {<<>>, <<"A">>, toBaseN(MaxAddr, Base, WidthAddr)}

(* the bank directory when the Presenter is constructed *)
InitDisks ==
    {EmptyMap,
     Put(EmptyMap, 1, Bank("one", Put(EmptyMap, 1, Put(EmptyMap, 1, PlainVal))))}

---------------------------------------------------------------------------
(* Presenter: helpers of the handlers *)

UiThread     == "ui"
WorkerThread == "worker"

(* the IView methods called so far, by thread *)
Called(thread, methods) == calls \cup {<<thread, m>> : m \in methods}

(* ws.banks[id]: std::map::operator[] default-constructs a missing bank *)
Touch(w, id) == IF id \in DOMAIN w THEN w ELSE Put(w, id, Bank("", EmptyMap))

(* h.find(f) != npos *)
Contains(h, f) ==
    \E i \in 0..(Len(h) - Len(f)) : SubSeq(h, i + 1, i + Len(f)) = f

(* the filter test looking at the value only *)
RowMatches_ValueOnly(r, f) == Contains(ToLower(r.val), f)

RowMatches(r, f) ==
    \/ Contains(ToLower(toBaseN(r.reg, Base, WidthReg)), f)
    \/ Contains(ToLower(toBaseN(r.addr, Base, WidthAddr)), f)
    \/ Contains(ToLower(r.val), f)

(* refreshRows handing every row on, filter or not *)
VisibleRows_IgnoresFilter(w, cur, flt) ==
    IF cur = None THEN <<>> ELSE BankRows(Touch(w, cur)[cur])

(* the rows refreshRows hands to showRows *)
VisibleRows(w, cur, flt) ==
    IF cur = None THEN <<>>
    ELSE LET rows == BankRows(Touch(w, cur)[cur])
             Keep(r) == RowMatches(r, ToLower(flt))
         IN  IF flt = <<>> THEN rows ELSE SelectSeq(rows, Keep)

(* refreshRows(): showRows(rows); showCurrent(current) *)
refreshRows(v, w, cur, flt) ==
    [v EXCEPT !.rows = VisibleRows(w, cur, flt), !.current = cur]

(* the ws refreshRows leaves behind (it indexes ws.banks[*current]) *)
RefreshedWs(w, cur) == IF cur = None THEN w ELSE Touch(w, cur)

RECURSIVE BankList(_, _)
BankList(w, order) ==
    IF order = <<>> THEN <<>>
    ELSE <<<<Head(order), w[Head(order)].title>>>> \o BankList(w, Tail(order))

(* pushBanks(): showBankList(list); showCurrent(current) *)
pushBanks(v, w, cur) ==
    [v EXCEPT !.banks = BankList(w, SortedSeq(DOMAIN w)), !.current = cur]

showStatus(v, s) == [v EXCEPT !.status = s]

(* the addresses register r of bank cur holds (none when it has no such register) *)
AddrSet(w, cur, r) ==
    IF cur \in DOMAIN w /\ r \in DOMAIN w[cur].regs THEN DOMAIN w[cur].regs[r] ELSE {}

NoEdit == [op |-> "other", reg |-> 0, addr |-> 0, addrs |-> {}, pending |-> 0]

NoContext == <<"No current context">>
BusyText  == <<"Busy...">>

---------------------------------------------------------------------------
(* Presenter(IView&, Paths): loadConfig, wire, preloadAll, pushBanks, showStatus *)

Init ==
    /\ disk \in InitDisks
    /\ ws = preloadAll(EmptyMap, disk)
    /\ current = None
    /\ dirty = FALSE
    /\ busy = FALSE
    /\ filter = <<>>
    /\ view = [status  |-> <<"Ready. Loaded ">> \o CountStr(ws) \o <<" banks.">>,
               rows    |-> <<>>,
               current |-> None,
               banks   |-> BankList(ws, SortedSeq(DOMAIN ws)),
               busy    |-> FALSE]
    /\ calls = {<<UiThread, "showBankList">>, <<UiThread, "showCurrent">>,
                <<UiThread, "showStatus">>}
    /\ workers = <<>>
    /\ uiQueue = <<>>
    /\ outFiles = EmptyMap
    /\ ops = 0
    /\ lastReq = NoEdit

---------------------------------------------------------------------------
(* Handlers run by the control flow *)

(* preload resetting dirty along with the banks it reloads *)
Preload_ClearsDirty ==
    \E w \in {preloadAll(ws, disk)} :
        /\ ws' = RefreshedWs(w, current)
        /\ dirty' = FALSE
        /\ view' = refreshRows(
                     showStatus(pushBanks(view, w, current),
                                <<"Preloaded ">> \o CountStr(w) \o <<" banks.">>),
                     w, current, filter)
        /\ calls' = Called(UiThread,
                           {"showBankList", "showCurrent", "showStatus", "showRows"})
        /\ UNCHANGED <<current, busy, filter, workers, uiQueue, disk, outFiles>>

(* preload starting over with no bank selected *)
Preload_Deselects ==
    \E w \in {preloadAll(ws, disk)} :
        /\ ws' = w
        /\ current' = None
        /\ view' = refreshRows(
                     showStatus(pushBanks(view, w, None),
                                <<"Preloaded ">> \o CountStr(w) \o <<" banks.">>),
                     w, None, filter)
        /\ calls' = Called(UiThread,
                           {"showBankList", "showCurrent", "showStatus", "showRows"})
        /\ UNCHANGED <<dirty, busy, filter, workers, uiQueue, disk, outFiles>>

(* onPreload -> preload() *)
Preload ==
    \E w \in {preloadAll(ws, disk)} :
        /\ ws' = RefreshedWs(w, current)
        /\ view' = refreshRows(
                     showStatus(pushBanks(view, w, current),
                                <<"Preloaded ">> \o CountStr(w) \o <<" banks.">>),
                     w, current, filter)
        /\ calls' = Called(UiThread,
                           {"showBankList", "showCurrent", "showStatus", "showRows"})
        /\ UNCHANGED <<current, dirty, busy, filter, workers, uiQueue, disk, outFiles>>

(* openOrSwitch without the dirty=false of a successful switch *)
OpenOrSwitch_KeepsDirty(name) ==
    \E r \in {openCtx(ws, disk, name)}, id \in {parseIntBase(TokenOf(name), Base)} :
        IF ~r.ok
        THEN /\ view' = showStatus(view, r.status)
             /\ calls' = Called(UiThread, {"showStatus"})
             /\ UNCHANGED <<ws, current, dirty, busy, filter, workers, uiQueue, disk,
                            outFiles>>
        ELSE /\ ws' = RefreshedWs(r.ws, id)
             /\ current' = id
             /\ view' = showStatus(
                          refreshRows(pushBanks(view, r.ws, id), r.ws, id, filter),
                          r.status)
             /\ calls' = Called(UiThread,
                                {"showBankList", "showCurrent", "showRows", "showStatus"})
             /\ UNCHANGED <<dirty, busy, filter, workers, uiQueue, disk, outFiles>>

(* openOrSwitch dropping the selection when the name is turned down *)
OpenOrSwitch_RejectDeselects(name) ==
    \E r \in {openCtx(ws, disk, name)}, id \in {parseIntBase(TokenOf(name), Base)} :
        IF ~r.ok
        THEN /\ view' = showStatus(view, r.status)
             /\ current' = None
             /\ calls' = Called(UiThread, {"showStatus"})
             /\ UNCHANGED <<ws, dirty, busy, filter, workers, uiQueue, disk, outFiles>>
        ELSE /\ ws' = RefreshedWs(r.ws, id)
             /\ current' = id
             /\ dirty' = FALSE
             /\ view' = showStatus(
                          refreshRows(pushBanks(view, r.ws, id), r.ws, id, filter),
                          r.status)
             /\ calls' = Called(UiThread,
                                {"showBankList", "showCurrent", "showRows", "showStatus"})
             /\ UNCHANGED <<busy, filter, workers, uiQueue, disk, outFiles>>

(* onSwitch -> openOrSwitch(nameOrStem) *)
OpenOrSwitch(name) ==
    \E r \in {openCtx(ws, disk, name)}, id \in {parseIntBase(TokenOf(name), Base)} :
        IF ~r.ok
        THEN /\ view' = showStatus(view, r.status)
             /\ calls' = Called(UiThread, {"showStatus"})
             /\ UNCHANGED <<ws, current, dirty, busy, filter, workers, uiQueue, disk,
                            outFiles>>
        ELSE /\ ws' = RefreshedWs(r.ws, id)
             /\ current' = id
             /\ dirty' = FALSE
             /\ view' = showStatus(
                          refreshRows(pushBanks(view, r.ws, id), r.ws, id, filter),
                          r.status)
             /\ calls' = Called(UiThread,
                                {"showBankList", "showCurrent", "showRows", "showStatus"})
             /\ UNCHANGED <<busy, filter, workers, uiQueue, disk, outFiles>>

(* onFilter -> filter = f; refreshRows() *)
SetFilter(f) ==
    /\ filter' = f
    /\ ws' = RefreshedWs(ws, current)
    /\ view' = refreshRows(view, ws, current, f)
    /\ calls' = Called(UiThread, {"showRows", "showCurrent"})
    /\ UNCHANGED <<current, dirty, busy, workers, uiQueue, disk, outFiles>>

(* ws.banks[*current].regs[reg][addr] = val *)
InsertWs(w, cur, r, a, v) ==
    LET w1 == Touch(w, cur)
        regs == w1[cur].regs
        addrs == IF r \in DOMAIN regs THEN regs[r] ELSE EmptyMap
    IN  [w1 EXCEPT ![cur].regs = Put(regs, r, Put(addrs, a, v))]

(* insert setting dirty before it looks at current *)
Insert_DirtyFirst(r, a, v) ==
    IF current = None
    THEN /\ dirty' = TRUE
         /\ view' = showStatus(view, NoContext)
         /\ calls' = Called(UiThread, {"showStatus"})
         /\ UNCHANGED <<ws, current, busy, filter, workers, uiQueue, disk, outFiles>>
    ELSE \E w \in {InsertWs(ws, current, r, a, v)} :
             /\ ws' = w
             /\ dirty' = TRUE
             /\ view' = showStatus(
                          refreshRows(view, w, current, filter),
                          <<"Updated ">> \o toBaseN(r, Base, WidthReg) \o <<".">>
                                         \o toBaseN(a, Base, WidthAddr))
             /\ calls' = Called(UiThread, {"showRows", "showCurrent", "showStatus"})
             /\ UNCHANGED <<current, busy, filter, workers, uiQueue, disk, outFiles>>

(* insert refusing to edit while a job runs *)
Insert_IdleOnly(r, a, v) ==
    IF current = None
    THEN /\ view' = showStatus(view, NoContext)
         /\ calls' = Called(UiThread, {"showStatus"})
         /\ UNCHANGED <<ws, current, dirty, busy, filter, workers, uiQueue, disk, outFiles>>
    ELSE IF busy
    THEN /\ view' = showStatus(view, BusyText)
         /\ calls' = Called(UiThread, {"showStatus"})
         /\ UNCHANGED <<ws, current, dirty, busy, filter, workers, uiQueue, disk, outFiles>>
    ELSE \E w \in {InsertWs(ws, current, r, a, v)} :
             /\ ws' = w
             /\ dirty' = TRUE
             /\ view' = showStatus(
                          refreshRows(view, w, current, filter),
                          <<"Updated ">> \o toBaseN(r, Base, WidthReg) \o <<".">>
                                         \o toBaseN(a, Base, WidthAddr))
             /\ calls' = Called(UiThread, {"showRows", "showCurrent", "showStatus"})
             /\ UNCHANGED <<current, busy, filter, workers, uiQueue, disk, outFiles>>

(* onInsert -> insert(reg, addr, val) *)
Insert(r, a, v) ==
    IF current = None
    THEN /\ view' = showStatus(view, NoContext)
         /\ calls' = Called(UiThread, {"showStatus"})
         /\ UNCHANGED <<ws, current, dirty, busy, filter, workers, uiQueue, disk, outFiles>>
    ELSE \E w \in {InsertWs(ws, current, r, a, v)} :
             /\ ws' = w
             /\ dirty' = TRUE
             /\ view' = showStatus(
                          refreshRows(view, w, current, filter),
                          <<"Updated ">> \o toBaseN(r, Base, WidthReg) \o <<".">>
                                         \o toBaseN(a, Base, WidthAddr))
             /\ calls' = Called(UiThread, {"showRows", "showCurrent", "showStatus"})
             /\ UNCHANGED <<current, busy, filter, workers, uiQueue, disk, outFiles>>

(* regs.find(reg) != end && itR->second.erase(addr) *)
HasAddr(w, cur, r, a) ==
    /\ cur \in DOMAIN w
    /\ r \in DOMAIN w[cur].regs
    /\ a \in DOMAIN w[cur].regs[r]

(* erase taking the bank itself out of the workspace *)
EraseWs_DropsBank(w, cur, r, a) == Remove(w, cur)

(* erase taking the whole register out of the bank *)
EraseWs_DropsRegister(w, cur, r, a) == [w EXCEPT ![cur].regs = Remove(w[cur].regs, r)]

EraseWs(w, cur, r, a) ==
    [w EXCEPT ![cur].regs = Put(w[cur].regs, r, Remove(w[cur].regs[r], a))]

(* erase marking the bank dirty whether or not it removed anything *)
Erase_AlwaysDirty(r, a) ==
    IF current = None
    THEN /\ view' = showStatus(view, NoContext)
         /\ calls' = Called(UiThread, {"showStatus"})
         /\ UNCHANGED <<ws, current, dirty, busy, filter, workers, uiQueue, disk, outFiles>>
    ELSE IF HasAddr(ws, current, r, a)
    THEN \E w \in {EraseWs(ws, current, r, a)} :
             /\ ws' = w
             /\ dirty' = TRUE
             /\ view' = showStatus(refreshRows(view, w, current, filter), <<"Deleted.">>)
             /\ calls' = Called(UiThread, {"showRows", "showCurrent", "showStatus"})
             /\ UNCHANGED <<current, busy, filter, workers, uiQueue, disk, outFiles>>
    ELSE /\ ws' = Touch(ws, current)
         /\ dirty' = TRUE
         /\ UNCHANGED <<current, busy, filter, view, calls, workers, uiQueue, disk,
                        outFiles>>

(* onDelete -> erase(reg, addr) *)
Erase(r, a) ==
    IF current = None
    THEN /\ view' = showStatus(view, NoContext)
         /\ calls' = Called(UiThread, {"showStatus"})
         /\ UNCHANGED <<ws, current, dirty, busy, filter, workers, uiQueue, disk, outFiles>>
    ELSE IF HasAddr(ws, current, r, a)
    THEN \E w \in {EraseWs(ws, current, r, a)} :
             /\ ws' = w
             /\ dirty' = TRUE
             /\ view' = showStatus(refreshRows(view, w, current, filter), <<"Deleted.">>)
             /\ calls' = Called(UiThread, {"showRows", "showCurrent", "showStatus"})
             /\ UNCHANGED <<current, busy, filter, workers, uiQueue, disk, outFiles>>
    ELSE /\ ws' = Touch(ws, current)
         /\ UNCHANGED <<current, dirty, busy, filter, view, calls, workers, uiQueue, disk,
                        outFiles>>

(* save clearing dirty before it knows whether the file was written *)
Save_ClearsOnFailure(written) ==
    IF current = None
    THEN /\ view' = showStatus(view, NoContext)
         /\ calls' = Called(UiThread, {"showStatus"})
         /\ UNCHANGED <<ws, current, dirty, busy, filter, workers, uiQueue, disk, outFiles>>
    ELSE \E w \in {Touch(ws, current)} :
             /\ ws' = w
             /\ dirty' = FALSE
             /\ calls' = Called(UiThread, {"showStatus"})
             /\ IF written
                THEN /\ disk' = Put(disk, current, w[current])
                     /\ view' = showStatus(view,
                                    <<"Saved ">> \o contextFileName(current))
                ELSE /\ view' = showStatus(view, <<"Save failed: ", "io error">>)
                     /\ UNCHANGED disk
             /\ UNCHANGED <<current, busy, filter, workers, uiQueue, outFiles>>

(* onSave -> save(); saveContextFile either writes the file or reports err *)
Save(written) ==
    IF current = None
    THEN /\ view' = showStatus(view, NoContext)
         /\ calls' = Called(UiThread, {"showStatus"})
         /\ UNCHANGED <<ws, current, dirty, busy, filter, workers, uiQueue, disk, outFiles>>
    ELSE \E w \in {Touch(ws, current)} :
             /\ ws' = w
             /\ calls' = Called(UiThread, {"showStatus"})
             /\ IF written
                THEN /\ disk' = Put(disk, current, w[current])
                     /\ dirty' = FALSE
                     /\ view' = showStatus(view,
                                    <<"Saved ">> \o contextFileName(current))
                ELSE /\ view' = showStatus(view, <<"Save failed: ", "io error">>)
                     /\ UNCHANGED <<disk, dirty>>
             /\ UNCHANGED <<current, busy, filter, workers, uiQueue, outFiles>>

---------------------------------------------------------------------------
(* Background jobs *)

(* the std::thread body of resolveAsync / exportAsync, before it runs;     *)
(* `snap` records the Workspace as it was at dispatch                      *)
NewThread(kind, id, w) ==
    [kind |-> kind, id |-> id, pc |-> "spawned", bank |-> EmptyBank, snap |-> w]

(* StartJob without the busy.exchange(true) gate *)
StartJob_NoGate(kind) ==
    IF current = None
    THEN /\ view' = showStatus(view, NoContext)
         /\ calls' = Called(UiThread, {"showStatus"})
         /\ UNCHANGED <<ws, current, dirty, busy, filter, workers, uiQueue, disk,
                        outFiles>>
    ELSE /\ busy' = TRUE
         /\ view' = [view EXCEPT !.busy = TRUE]
         /\ calls' = Called(UiThread, {"setBusy"})
         /\ workers' = Append(workers, NewThread(kind, current, ws))
         /\ UNCHANGED <<ws, current, dirty, filter, uiQueue, disk, outFiles>>

(* StartJob whose rejection releases the gate: busy.exchange(false) *)
StartJob_RejectClears(kind) ==
    IF current = None
    THEN /\ view' = showStatus(view, NoContext)
         /\ calls' = Called(UiThread, {"showStatus"})
         /\ UNCHANGED <<ws, current, dirty, busy, filter, workers, uiQueue, disk,
                        outFiles>>
    ELSE IF busy
    THEN /\ view' = showStatus(view, BusyText)
         /\ busy' = FALSE
         /\ calls' = Called(UiThread, {"showStatus"})
         /\ UNCHANGED <<ws, current, dirty, filter, workers, uiQueue, disk, outFiles>>
    ELSE /\ busy' = TRUE
         /\ view' = [view EXCEPT !.busy = TRUE]
         /\ calls' = Called(UiThread, {"setBusy"})
         /\ workers' = Append(workers, NewThread(kind, current, ws))
         /\ UNCHANGED <<ws, current, dirty, filter, uiQueue, disk, outFiles>>

(* StartJob taking the gate before it looks at current *)
StartJob_GateFirst(kind) ==
    IF busy
    THEN /\ view' = showStatus(view, BusyText)
         /\ calls' = Called(UiThread, {"showStatus"})
         /\ UNCHANGED <<ws, current, dirty, busy, filter, workers, uiQueue, disk,
                        outFiles>>
    ELSE IF current = None
    THEN /\ busy' = TRUE
         /\ view' = showStatus(view, NoContext)
         /\ calls' = Called(UiThread, {"showStatus"})
         /\ UNCHANGED <<ws, current, dirty, filter, workers, uiQueue, disk, outFiles>>
    ELSE /\ busy' = TRUE
         /\ view' = [view EXCEPT !.busy = TRUE]
         /\ calls' = Called(UiThread, {"setBusy"})
         /\ workers' = Append(workers, NewThread(kind, current, ws))
         /\ UNCHANGED <<ws, current, dirty, filter, uiQueue, disk, outFiles>>

(* resolveAsync() / exportAsync() up to the detach *)
StartJob(kind) ==
    IF current = None
    THEN /\ view' = showStatus(view, NoContext)
         /\ calls' = Called(UiThread, {"showStatus"})
         /\ UNCHANGED <<ws, current, dirty, busy, filter, workers, uiQueue, disk,
                        outFiles>>
    ELSE IF busy
    THEN /\ view' = showStatus(view, BusyText)
         /\ calls' = Called(UiThread, {"showStatus"})
         /\ UNCHANGED <<ws, current, dirty, busy, filter, workers, uiQueue, disk,
                        outFiles>>
    ELSE /\ busy' = TRUE
         /\ view' = [view EXCEPT !.busy = TRUE]
         /\ calls' = Called(UiThread, {"setBusy"})
         /\ workers' = Append(workers, NewThread(kind, current, ws))
         /\ UNCHANGED <<ws, current, dirty, filter, uiQueue, disk, outFiles>>

(* onResolve -> resolveAsync() *)
resolveAsync == StartJob("resolve")

(* onExport -> exportAsync() *)
exportAsync == StartJob("export")

RemoveAt(seq, i) == SubSeq(seq, 1, i - 1) \o SubSeq(seq, i + 1, Len(seq))

(* the worker reaches the target bank through the captured `this`: it      *)
(* reads ws.banks[id] as it is when the thread gets there                   *)
WorkerRead(i) ==
    /\ i \in DOMAIN workers
    /\ workers[i].pc = "spawned"
    /\ workers' = [workers EXCEPT
                     ![i].pc = "read",
                     ![i].bank = IF workers[i].id \in DOMAIN ws
                                 THEN ws[workers[i].id] ELSE EmptyBank]
    /\ UNCHANGED <<ws, current, dirty, busy, filter, view, calls, uiQueue, disk,
                   outFiles>>

(* what the try block computes: resolve looks cross-references up in the   *)
(* live ws, export serialises the bank                                     *)
JobResult(kind, w, b) ==
    IF kind = "resolve" THEN resolveBankToText(w, b) ELSE exportBankToJSON(b)

OutName(kind, id) == IF kind = "resolve" THEN outResolvedName(id) ELSE outJsonName(id)

(* the callback handed to postToUi: [this, ok, path] *)
Callback(kind, ok, path) == [kind |-> kind, ok |-> ok, path |-> path]

(* view.postToUi(fn) *)
postToUi(q, fn) == Append(q, fn)

(* the text the completion callback shows *)
FinalStatus(cb) ==
    IF cb.kind = "resolve"
    THEN IF cb.ok THEN <<"Resolved -> ">> \o cb.path ELSE <<"Resolve failed.">>
    ELSE IF cb.ok THEN <<"Exported JSON -> ">> \o cb.path ELSE <<"Export failed.">>

(* the thread body without the catch: a failed job posts nothing *)
WorkerFinish_NoPostOnFailure(i, written) ==
    /\ i \in DOMAIN workers
    /\ workers[i].pc = "read"
    /\ \E t \in {workers[i]} :
       \E res \in {JobResult(t.kind, ws, t.bank)}, outp \in {OutName(t.kind, t.id)} :
           /\ outFiles' = IF res.ok /\ written THEN Put(outFiles, outp, res.text)
                          ELSE outFiles
           /\ uiQueue' = IF res.ok THEN postToUi(uiQueue, Callback(t.kind, TRUE, outp))
                         ELSE uiQueue
    /\ calls' = Called(WorkerThread, {"postToUi"})
    /\ workers' = RemoveAt(workers, i)
    /\ UNCHANGED <<ws, current, dirty, busy, filter, view, disk>>

(* the thread body posting its callback from the try block and again after it *)
WorkerFinish_PostsTwice(i, written) ==
    /\ i \in DOMAIN workers
    /\ workers[i].pc = "read"
    /\ \E t \in {workers[i]} :
       \E res \in {JobResult(t.kind, ws, t.bank)}, outp \in {OutName(t.kind, t.id)} :
       \E cb \in {Callback(t.kind, res.ok, IF res.ok THEN outp ELSE <<>>)} :
           /\ outFiles' = IF res.ok /\ written THEN Put(outFiles, outp, res.text)
                          ELSE outFiles
           /\ uiQueue' = IF res.ok THEN postToUi(postToUi(uiQueue, cb), cb)
                         ELSE postToUi(uiQueue, cb)
    /\ calls' = Called(WorkerThread, {"postToUi"})
    /\ workers' = RemoveAt(workers, i)
    /\ UNCHANGED <<ws, current, dirty, busy, filter, view, disk>>

(* the thread body running the completion itself instead of posting it *)
WorkerFinish_Direct(i, written) ==
    /\ i \in DOMAIN workers
    /\ workers[i].pc = "read"
    /\ \E t \in {workers[i]} :
       \E res \in {JobResult(t.kind, ws, t.bank)}, outp \in {OutName(t.kind, t.id)} :
           /\ outFiles' = IF res.ok /\ written THEN Put(outFiles, outp, res.text)
                          ELSE outFiles
           /\ view' = showStatus([view EXCEPT !.busy = FALSE],
                                 FinalStatus(Callback(t.kind, res.ok,
                                                      IF res.ok THEN outp ELSE <<>>)))
    /\ busy' = FALSE
    /\ calls' = Called(WorkerThread, {"setBusy", "showStatus"})
    /\ workers' = RemoveAt(workers, i)
    /\ UNCHANGED <<ws, current, dirty, filter, uiQueue, disk>>

(* the thread body naming its output after the bank selected when it ends *)
WorkerFinish_UsesCurrent(i, written) ==
    /\ i \in DOMAIN workers
    /\ workers[i].pc = "read"
    /\ \E t \in {workers[i]} :
       \E res \in {JobResult(t.kind, ws, t.bank)}, outp \in {OutName(t.kind, current)} :
           /\ outFiles' = IF res.ok /\ written THEN Put(outFiles, outp, res.text)
                          ELSE outFiles
           /\ uiQueue' = postToUi(uiQueue,
                                  Callback(t.kind, res.ok, IF res.ok THEN outp ELSE <<>>))
    /\ calls' = Called(WorkerThread, {"postToUi"})
    /\ workers' = RemoveAt(workers, i)
    /\ UNCHANGED <<ws, current, dirty, busy, filter, view, disk>>

(* rest of the thread body: compute, write the output file (std::ofstream  *)
(* does not throw when the file cannot be written), post the callback, end *)
WorkerFinish(i, written) ==
    /\ i \in DOMAIN workers
    /\ workers[i].pc = "read"
    /\ \E t \in {workers[i]} :
       \E res \in {JobResult(t.kind, ws, t.bank)}, outp \in {OutName(t.kind, t.id)} :
           /\ outFiles' = IF res.ok /\ written THEN Put(outFiles, outp, res.text)
                          ELSE outFiles
           /\ uiQueue' = postToUi(uiQueue,
                                  Callback(t.kind, res.ok, IF res.ok THEN outp ELSE <<>>))
    /\ calls' = Called(WorkerThread, {"postToUi"})
    /\ workers' = RemoveAt(workers, i)
    /\ UNCHANGED <<ws, current, dirty, busy, filter, view, disk>>

(* the posted callback marking the bank clean when the job is done *)
Complete_ClearsDirty ==
    /\ uiQueue # <<>>
    /\ busy' = FALSE
    /\ dirty' = FALSE
    /\ view' = showStatus([view EXCEPT !.busy = FALSE], FinalStatus(Head(uiQueue)))
    /\ calls' = Called(UiThread, {"setBusy", "showStatus"})
    /\ uiQueue' = Tail(uiQueue)
    /\ UNCHANGED <<ws, current, filter, workers, disk, outFiles>>

(* the posted callback without its setBusy(false) *)
Complete_IndicatorStuck ==
    /\ uiQueue # <<>>
    /\ busy' = FALSE
    /\ view' = showStatus(view, FinalStatus(Head(uiQueue)))
    /\ calls' = Called(UiThread, {"showStatus"})
    /\ uiQueue' = Tail(uiQueue)
    /\ UNCHANGED <<ws, current, dirty, filter, workers, disk, outFiles>>

(* the control flow runs the posted callback: setBusy(false); busy=false;  *)
(* showStatus(...)                                                         *)
Complete ==
    /\ uiQueue # <<>>
    /\ busy' = FALSE
    /\ view' = showStatus([view EXCEPT !.busy = FALSE], FinalStatus(Head(uiQueue)))
    /\ calls' = Called(UiThread, {"setBusy", "showStatus"})
    /\ uiQueue' = Tail(uiQueue)
    /\ UNCHANGED <<ws, current, dirty, filter, workers, disk, outFiles>>

---------------------------------------------------------------------------
(* The program *)

(* the front end fires one more request *)
Fire == ops < MaxOps /\ ops' = ops + 1

(* a request other than an insert or delete on a selected bank *)
Other == Fire /\ lastReq' = NoEdit

(* an insert or delete request: the addresses the register holds are noted *)
Editing(op, r, a) ==
    /\ Fire
    /\ lastReq' = IF current = None THEN NoEdit
                  ELSE [op |-> op, reg |-> r, addr |-> a, addrs |-> AddrSet(ws, current, r),
                        pending |-> 0]

(* a resolve or export request: the callbacks not yet run are noted *)
Asking == Fire /\ lastReq' = [NoEdit EXCEPT !.op = "job", !.pending = Len(uiQueue)]

(* the scheduler runs a worker thread *)
WorkerReads == UNCHANGED <<ops, lastReq>> /\ \E i \in DOMAIN workers : WorkerRead(i)

WorkerFinishes ==
    /\ UNCHANGED <<ops, lastReq>>
    /\ \E i \in DOMAIN workers, written \in BOOLEAN : WorkerFinish(i, written)

(* the message loop runs the next posted callback *)
Completes == UNCHANGED <<ops, lastReq>> /\ Complete

Next ==
    \/ Other /\ Preload
    \/ Other /\ \E name \in Names : OpenOrSwitch(name)
    \/ Other /\ \E f \in Filters : SetFilter(f)
    \/ \E r \in RegIds, a \in AddrIds, v \in Vals : Editing("insert", r, a) /\ Insert(r, a, v)
    \/ \E r \in RegIds, a \in AddrIds : Editing("erase", r, a) /\ Erase(r, a)
    \/ Other /\ \E written \in BOOLEAN : Save(written)
    \/ Asking /\ resolveAsync
    \/ Asking /\ exportAsync
    \/ WorkerReads
    \/ WorkerFinishes
    \/ Completes

Spec == Init /\ [][Next]_vars

(* a detached thread is eventually scheduled and the message loop          *)
(* eventually runs a posted callback                                       *)
FairSpec ==
    Spec /\ WF_vars(WorkerReads) /\ WF_vars(WorkerFinishes) /\ WF_vars(Completes)

---------------------------------------------------------------------------
(* Claims *)

(* C1: in every reachable state at most one background worker, resolve or  *)
(* export counted together, is active.                                     *)
C1_SingleFlight == Len(workers) <= 1

(* a second job's worker is active after a first job has written its output *)
C1_Witness == Len(workers) = 1 /\ outFiles # EmptyMap

(* C2: the worker operates on the dispatch-time snapshot: the bank it      *)
(* reads is the target bank as it was when the job was dispatched, and     *)
(* what it computes and writes is what the dispatch-time Workspace gives,  *)
(* whatever the control flow has inserted, deleted, switched or preloaded  *)
(* since.                                                                  *)
C2_WorkerReadsSnapshot ==
    [][\A i \in DOMAIN workers :
         /\ WorkerRead(i) => workers'[i].bank = workers[i].snap[workers[i].id]
         /\ \A written \in BOOLEAN :
              WorkerFinish(i, written) =>
                LET t == workers[i]
                    expected == JobResult(t.kind, t.snap, t.snap[t.id])
                IN  /\ uiQueue'[Len(uiQueue')].ok = expected.ok
                    /\ (expected.ok /\ written)
                         => outFiles'[OutName(t.kind, t.id)] = expected.text]_vars

(* C3: a resolve or export request that arrives while a job is running is  *)
(* answered with the Busy status and changes nothing else: no worker is    *)
(* spawned, nothing is queued, busy stays set and the job in flight is     *)
(* left as it is.                                                          *)
C3_BusyRejected ==
    [][(busy /\ (resolveAsync \/ exportAsync)) =>
         /\ view'.status = BusyText
         /\ busy'
         /\ UNCHANGED <<ws, current, dirty, filter, workers, uiQueue, disk, outFiles>>
         /\ view' = [view EXCEPT !.status = BusyText]]_vars

(* a request was rejected while the worker of the running job is still active *)
C3_Witness == busy /\ view.status = BusyText /\ Len(workers) = 1 /\ uiQueue = <<>>

(* C4: every accepted job, successful or failed, is followed by exactly   *)
(* one completion callback on the control flow, which sets busy back to    *)
(* false and shows the final status; busy never stays set forever.         *)
C4_Completion ==
    /\ [](Len(workers) + Len(uiQueue) = IF busy THEN 1 ELSE 0)
    /\ [][Complete =>
            /\ ~busy' /\ ~view'.busy
            /\ view'.status = FinalStatus(Head(uiQueue))
            /\ workers' = <<>> /\ uiQueue' = <<>>]_vars
    /\ [][(busy /\ ~busy') => Complete]_vars
    /\ (busy ~> ~busy)

(* a failed job has been completed: busy is clear and the failure is shown *)
C4_Witness == ~busy /\ ~view.busy /\ view.status = <<"Resolve failed.">>

(* C5: resolve() twice in a row from Idle with a bank selected: the first  *)
(* request starts the one worker and shows no Busy status, busy stays set  *)
(* until the completion callback runs, so the second request is the one    *)
(* that shows Busy and it adds neither a worker nor a callback; one        *)
(* completion is pending while busy and it eventually runs.                *)
C5_ResolveTwice ==
    /\ [][(~busy /\ current # None /\ resolveAsync) =>
            /\ busy'
            /\ Len(workers') = 1 /\ workers'[1].kind = "resolve"
            /\ uiQueue' = <<>>
            /\ view'.status = view.status /\ view.status # BusyText]_vars
    /\ [][(busy /\ ~Complete) => busy']_vars
    /\ [][(busy /\ resolveAsync) =>
            /\ view'.status = BusyText
            /\ UNCHANGED <<workers, uiQueue, busy>>]_vars
    /\ [](busy => Len(workers) + Len(uiQueue) = 1)
    /\ [][Complete => (workers' = <<>> /\ uiQueue' = <<>> /\ ~busy')]_vars
    /\ (busy ~> ~busy)

(* open a bank, resolve, resolve: the resolve worker is there and Busy is shown *)
C5_Witness ==
    /\ ops = 3 /\ busy /\ view.status = BusyText
    /\ Len(workers) = 1 /\ workers[1].kind = "resolve" /\ workers[1].pc = "spawned"

(* the outbound notifications of IView *)
Notifications == {"showStatus", "showRows", "showCurrent", "showBankList", "setBusy"}

(* C6: every outbound notification is made by the control flow; the only   *)
(* IView method a worker calls is postToUi, once, when it ends, and that   *)
(* step leaves what the view shows untouched.                              *)
C6_NotifiedOnUi ==
    /\ [](\A c \in calls : /\ c[2] \in Notifications => c[1] = UiThread
                           /\ c[1] = WorkerThread => c[2] = "postToUi")
    /\ [][\A i \in DOMAIN workers, written \in BOOLEAN :
            WorkerFinish(i, written) =>
              /\ Len(uiQueue') = Len(uiQueue) + 1
              /\ view' = view /\ busy' = busy]_vars

(* a worker has posted its callback and the control flow has run it *)
C6_Witness ==
    /\ <<WorkerThread, "postToUi">> \in calls
    /\ <<UiThread, "setBusy">> \in calls
    /\ ~busy /\ uiQueue = <<>> /\ workers = <<>>
    /\ view.status[1] \in {"Resolved -> ", "Exported JSON -> "}

(* C7: with no bank selected, resolve, export, save, insert and delete     *)
(* each only show "No current context": no worker, busy stays clear,       *)
(* current, dirty and the workspace are unchanged.                         *)
C7_NoContext ==
    [][(/\ current = None
        /\ \/ resolveAsync \/ exportAsync
           \/ \E written \in BOOLEAN : Save(written)
           \/ \E r \in RegIds, a \in AddrIds, v \in Vals : Insert(r, a, v)
           \/ \E r \in RegIds, a \in AddrIds : Erase(r, a))
       => /\ view' = [view EXCEPT !.status = NoContext]
          /\ ~busy /\ ~busy' /\ workers' = <<>> /\ uiQueue' = <<>>
          /\ UNCHANGED <<ws, current, dirty, filter, disk, outFiles>>]_vars

(* a request was turned down for want of a selected bank *)
C7_Witness ==
    current = None /\ view.status = NoContext /\ ~busy /\ workers = <<>> /\ ops > 0

C9_FailureNamesReference ==
    [][\A i \in DOMAIN workers, written \in BOOLEAN :
         (/\ workers[i].kind = "resolve"
          /\ WorkerFinish(i, written)
          /\ ~resolveBankToText(ws, workers[i].bank).ok)
         => /\ ~uiQueue'[Len(uiQueue')].ok
            /\ outFiles' = outFiles
            /\ Contains(FinalStatus(uiQueue'[Len(uiQueue')]),
                        resolveBankToText(ws, workers[i].bank).ref)]_vars

C11_SwitchSelects ==
    [][\A name \in Names :
         (OpenOrSwitch(name) /\ openCtx(ws, disk, name).ok) =>
            /\ IdOfName(name) \in BankIds
            /\ current' = IdOfName(name)
            /\ ~dirty'
            /\ current' \in DOMAIN ws'
            /\ view'.current = current']_vars

(* a switch was made while another bank held edits that were never saved *)
C11_Witness ==
    /\ current # None /\ ~dirty
    /\ view.status[1] \in {"Switched to ", "Loaded ", "Created "}
    /\ \E b \in DOMAIN ws :
         /\ b # current
         /\ ws[b].regs # EmptyMap
         /\ (b \notin DOMAIN disk \/ disk[b] # ws[b])

(* C12: a switchOrOpen whose identifier text does not parse in the         *)
(* configured base is turned down at once: it shows a status naming the    *)
(* text and leaves current, dirty, the workspace, the filter, the files    *)
(* and the job state as they were.                                         *)
C12_BadNameRejected ==
    [][\A name \in Names :
         (OpenOrSwitch(name) /\ IdOfName(name) = None) =>
            /\ UNCHANGED <<ws, current, dirty, filter, busy, workers, uiQueue, disk,
                           outFiles>>
            /\ view' = [view EXCEPT !.status = view'.status]
            /\ Contains(view'.status, name)]_vars

(* an unparsable name was turned down while a bank with unsaved edits is   *)
(* selected                                                                *)
C12_Witness ==
    /\ view.status = <<"Bad context id: ">> \o BadName
    /\ current # None /\ dirty /\ ws[current].regs # EmptyMap

(* C13, as claimed: a delete(reg, addr) that follows insert(reg, addr, v)  *)
(* leaves register reg with the addresses it had before the insert, also   *)
(* when (reg, addr) was there before the insert; dirty is true after the   *)
(* insert and after the delete.                                            *)
C13_InsertDeleteRestores ==
    [][(lastReq.op = "insert" /\ Erase(lastReq.reg, lastReq.addr) /\ lastReq'.op = "erase") =>
         /\ AddrSet(ws', current', lastReq.reg) = lastReq.addrs
         /\ dirty /\ dirty']_vars

(* C13, as the code has it: after insert(reg, addr, v) then delete(reg,    *)
(* addr) register reg holds the addresses it had before the insert other   *)
(* than addr (its pre-insert contents when addr was not among them; an     *)
(* entry the insert overwrote is gone, not restored); dirty is true after  *)
(* the insert and after the delete.                                        *)
C13_InsertDeleteRemoves ==
    [][(lastReq.op = "insert" /\ Erase(lastReq.reg, lastReq.addr) /\ lastReq'.op = "erase") =>
         /\ AddrSet(ws', current', lastReq.reg) = lastReq.addrs \ {lastReq.addr}
         /\ lastReq.addr \in AddrSet(ws, current, lastReq.reg)
         /\ dirty /\ dirty']_vars

(* open a bank that has no file, insert, delete: the register is empty again *)
C13_Witness ==
    /\ ops = 3 /\ current = MaxBank /\ dirty
    /\ view.status = <<"Deleted.">>
    /\ lastReq.op = "erase" /\ lastReq.addrs = {lastReq.addr}
    /\ AddrSet(ws, current, lastReq.reg) = {}

(* C14: delete(reg, addr) of a pair the current bank does not hold, the    *)
(* register missing or present without that address, changes nothing: the  *)
(* workspace, current, dirty, the files and the job state stay as they     *)
(* were and the view is told nothing, no error included; a delete turns    *)
(* dirty on only when it removed an entry.                                 *)
C14_DeleteAbsentNoOp ==
    /\ [][\A r \in RegIds, a \in AddrIds :
            (/\ current # None /\ ~HasAddr(ws, current, r, a)
             /\ Erase(r, a) /\ lastReq'.op = "erase") =>
               UNCHANGED <<ws, current, dirty, busy, filter, view, calls, workers, uiQueue,
                           disk, outFiles>>]_vars
    /\ [][\A r \in RegIds, a \in AddrIds :
            (Erase(r, a) /\ lastReq'.op = "erase" /\ ~dirty /\ dirty') =>
               /\ HasAddr(ws, current, r, a)
               /\ ~HasAddr(ws', current', r, a)
               /\ view'.status = <<"Deleted.">>]_vars

(* the latest request was a delete of an address its register, present in  *)
(* the clean current bank, did not hold                                    *)
C14_Witness ==
    /\ lastReq.op = "erase" /\ lastReq.addr \notin lastReq.addrs
    /\ current # None /\ ~dirty
    /\ lastReq.reg \in DOMAIN ws[current].regs
    /\ view.status # <<"Deleted.">>

(* C15: save() with a bank selected clears dirty exactly when the write    *)
(* succeeds and then shows "Saved <file>"; when the write fails dirty      *)
(* keeps the value it had and a "Save failed" status is shown; either way  *)
(* current and the in-memory workspace are unchanged.                      *)
C15_SaveClearsOnSuccess ==
    [][\A written \in BOOLEAN :
         (current # None /\ Save(written)) =>
            /\ current' = current /\ ws' = ws
            /\ written => /\ ~dirty'
                          /\ view'.status = <<"Saved ">> \o contextFileName(current)
            /\ ~written => /\ dirty' = dirty
                           /\ view'.status[1] = "Save failed: "
            /\ (dirty /\ ~dirty') <=> (dirty /\ written)]_vars

(* a save of an edited bank has failed *)
C15_Witness ==
    current # None /\ dirty /\ view.status[1] = "Save failed: "

(* C16: preload(), in any state and also while a job runs, leaves          *)
(* current, the filter and the job state alone; in the workspace it only   *)
(* replaces banks by their files and adds banks, every other bank stays    *)
(* as it was.                                                              *)
C16_PreloadKeepsCurrent ==
    [][Preload =>
         /\ UNCHANGED <<current, filter, busy, workers, uiQueue>>
         /\ view'.current = current
         /\ DOMAIN ws \subseteq DOMAIN ws'
         /\ \A id \in DOMAIN ws' :
              \/ id \in DOMAIN disk /\ ws'[id] = disk[id]
              \/ id \in DOMAIN ws /\ ws'[id] = ws[id]]_vars

(* a preload was done with a bank selected and a job in flight *)
C16_Witness ==
    /\ view.status[1] = "Preloaded "
    /\ current # None /\ busy /\ Len(workers) = 1

(* C17: no operation takes a bank id out of the workspace.                 *)
C17_BanksNeverShrink == [][DOMAIN ws \subseteq DOMAIN ws']_vars

(* every bank id is in the workspace and an entry has just been deleted *)
C17_Witness ==
    /\ DOMAIN ws = BankIds
    /\ view.status = <<"Deleted.">>
    /\ \E r \in DOMAIN ws[current].regs : ws[current].regs[r] = EmptyMap

(* the (reg, addr, value) entries of the current bank *)
CurrentEntries ==
    IF current = None \/ current \notin DOMAIN ws THEN {}
    ELSE {[reg |-> p[1], addr |-> p[2], val |-> ws[current].regs[p[1]][p[2]]] :
            p \in BankKeys(ws[current])}

(* query q occurs, letter case aside, in the encoded register id, the      *)
(* encoded address id or the value of entry e                              *)
Occurs(q, e) ==
    \E text \in {toBaseN(e.reg, Base, WidthReg), toBaseN(e.addr, Base, WidthAddr), e.val} :
        \E i \in 1..Len(text) :
            /\ i + Len(q) - 1 <= Len(text)
            /\ \A k \in 1..Len(q) : LowerChar(text[i + k - 1]) = LowerChar(q[k])

(* C18: the rows last sent to the view are exactly the entries of the      *)
(* current bank that match the stored filter (all of them when the filter  *)
(* is empty), in ascending (reg, addr) order, no pair twice; this holds    *)
(* after every insert, delete, setFilter, switchOrOpen and preload, and    *)
(* so in every state.                                                      *)
C18_RowsMatchFilter ==
    /\ {view.rows[k] : k \in DOMAIN view.rows}
          = {e \in CurrentEntries : filter = <<>> \/ Occurs(filter, e)}
    /\ \A j, k \in DOMAIN view.rows :
          j < k => KeyBefore(<<view.rows[j].reg, view.rows[j].addr>>,
                             <<view.rows[k].reg, view.rows[k].addr>>)

(* a filter is set and it hides one of the two entries of the current bank *)
C18_Witness ==
    /\ current # None /\ filter # <<>>
    /\ Cardinality(CurrentEntries) = 2
    /\ Len(view.rows) = 1

(* C19: when the stored filter is the exact encoded address id of an entry *)
(* of the current bank, that entry is among the rows shown; when the       *)
(* stored filter is a non-empty text that occurs, letter case aside, in    *)
(* no entry's encoded register id, encoded address id or value, no row is  *)
(* shown.                                                                  *)
C19_FilterByAddress ==
    /\ \A e \in CurrentEntries :
          filter = toBaseN(e.addr, Base, WidthAddr)
             => \E k \in DOMAIN view.rows : view.rows[k] = e
    /\ (filter # <<>> /\ \A e \in CurrentEntries : ~Occurs(filter, e))
          => view.rows = <<>>

(* the filter is an encoded address: the entry at that address is shown    *)
(* and another entry of the bank is not                                    *)
C19_Witness ==
    /\ current # None
    /\ filter = toBaseN(MaxAddr, Base, WidthAddr)
    /\ \E k \in DOMAIN view.rows : view.rows[k].addr = MaxAddr
    /\ Len(view.rows) < Cardinality(CurrentEntries)

(* C20: busy is set exactly while a worker runs or its completion callback *)
(* is posted and not yet run; so a resolve or export request that comes    *)
(* after the worker ended and before its callback ran is still answered    *)
(* with Busy and starts nothing; and between handlers the busy indicator   *)
(* last sent to the view equals the busy flag.                             *)
C20_BusyWhilePending ==
    /\ [](busy <=> (workers # <<>> \/ uiQueue # <<>>))
    /\ [](view.busy = busy)
    /\ [][(workers = <<>> /\ uiQueue # <<>> /\ (resolveAsync \/ exportAsync)
              /\ lastReq'.op = "job") =>
            /\ view'.status = BusyText
            /\ busy /\ busy'
            /\ UNCHANGED <<workers, uiQueue, outFiles>>]_vars

(* the latest request, a resolve or export, came when the worker had ended *)
(* and its callback was waiting: it was answered with Busy                 *)
C20_Witness ==
    /\ lastReq.op = "job" /\ lastReq.pending = 1
    /\ workers = <<>> /\ Len(uiQueue) = 1
    /\ busy /\ view.busy /\ view.status = BusyText

(* C21: a job works on the bank id that was current when it was            *)
(* dispatched, wherever the selection goes meanwhile: the thread is        *)
(* started with that id and keeps it, it reads the bank of that id, it     *)
(* writes no file but that bank's output file, the callback it posts       *)
(* carries that path when the job succeeded, and the completion shows it.  *)
C21_JobKeepsDispatchId ==
    /\ [][(~busy /\ current # None /\ (resolveAsync \/ exportAsync)) =>
            (Len(workers') = 1 /\ workers'[1].id = current)]_vars
    /\ [][(workers # <<>> /\ workers' # <<>>) => workers'[1].id = workers[1].id]_vars
    /\ [][\A i \in DOMAIN workers :
            /\ WorkerRead(i) => workers'[i].bank = ws[workers[i].id]
            /\ \A written \in BOOLEAN :
                 WorkerFinish(i, written) =>
                   /\ \A path \in DOMAIN outFiles' :
                        \/ path \in DOMAIN outFiles /\ outFiles'[path] = outFiles[path]
                        \/ path = OutName(workers[i].kind, workers[i].id)
                   /\ uiQueue'[Len(uiQueue')].ok =>
                        uiQueue'[Len(uiQueue')].path
                           = OutName(workers[i].kind, workers[i].id)]_vars
    /\ [][(Complete /\ Head(uiQueue).ok) =>
            view'.status[1] \in {"Resolved -> ", "Exported JSON -> "}
               /\ Contains(view'.status, Head(uiQueue).path)]_vars

(* a resolve of one bank was completed after another bank was selected:    *)
(* the file written and the status shown are those of the first bank       *)
C21_Witness ==
    /\ ~busy /\ current # None
    /\ \E b \in BankIds :
         /\ b # current
         /\ view.status = <<"Resolved -> ">> \o outResolvedName(b)
         /\ outResolvedName(b) \in DOMAIN outFiles
         /\ outResolvedName(current) \notin DOMAIN outFiles

(* C22: once a bank is selected one stays selected; the selected id is     *)
(* always a bank of the workspace; dirty is set only while a bank is       *)
(* selected.                                                               *)
C22_CurrentStaysValid ==
    /\ [][current # None => current' # None]_vars
    /\ [](current # None => current \in DOMAIN ws)
    /\ [](dirty => current # None)

(* a bank with unsaved edits is still selected after a preload or a refused name *)
C22_Witness ==
    /\ current # None /\ current \in DOMAIN ws /\ dirty
    /\ view.status[1] \in {"Preloaded ", "Bad context id: "}

(* C23: the completion callback of a job, successful or failed, changes    *)
(* the busy flag, the busy indicator and the status text and nothing       *)
(* else: current, dirty, the filter, the workspace, the files and the      *)
(* rows, selection and bank list shown are as before.                      *)
C23_CompletionFrame ==
    [][Complete =>
         /\ UNCHANGED <<current, dirty, filter, ws, disk, outFiles, workers>>
         /\ view' = [view EXCEPT !.busy = FALSE, !.status = view'.status]
         /\ view'.rows = view.rows
         /\ view'.status = FinalStatus(Head(uiQueue))]_vars

(* an export of an edited bank has been completed: the edits and the rows  *)
(* shown are still there                                                   *)
C23_Witness ==
    /\ ~busy /\ ~view.busy /\ uiQueue = <<>>
    /\ view.status[1] = "Exported JSON -> "
    /\ dirty /\ view.rows # <<>>

====
